---- MODULE Spec2Model ----
(***************************************************************************)
(* Agentic RAG service: re-ranker, citation extraction, the orchestrator's *)
(* query pipeline over the vector index, document ingestion, the health    *)
(* endpoint and the conversation store behind the HTTP handlers.           *)
(*                                                                         *)
(* Conventions.  An optional value (Python None or a value) is a sequence  *)
(* of length 0 or 1.  A text is a sequence of one-character strings.  A    *)
(* Python dict is a function; a missing key is a key outside its DOMAIN.   *)
(* Float scores are integers: only their order and their truthiness (0 is  *)
(* falsy) are used by the code.                                            *)
(***************************************************************************)
EXTENDS Integers, Sequences, FiniteSets, TLC

VARIABLES
    top_k_rerank,   \* settings.top_k_rerank (environment-driven)
    rr_pc,          \* Reranker.rerank call: "off" | "call" | "done"
    rr_documents,   \* its documents argument
    rr_top_k,       \* its top_k argument (optional)
    rr_scores,      \* what the cross-encoder answers, one score per pair
    rr_raises,      \* whether the cross-encoder raises
    rr_result,      \* the list rerank returned
    ce_pc,          \* extract_citations call: "off" | "call" | "done"
    ce_nodes,       \* its nodes argument
    ce_result,      \* the citations it returned
    top_k_retrieval,\* settings.top_k_retrieval (environment-driven)
    index,          \* the vector index: the set of stored chunks
    ing_resp,       \* the last answer of POST /documents/ingest
    pq_pc,          \* process_query: "off" | "idle" | "query" | "retrieval" |
                    \*   "answer" | "post" | "returned" | "raised"
    pq_calls,       \* the collaborator calls of this run, in order
    pq_tool,        \* what the document-retrieval tool gave the crew
    pq_answer,      \* the crew's answer
    pq_nodes,       \* nodes of the orchestrator's own retrieve (line 121)
    pq_reranked,    \* reranked_docs of the orchestrator's own rerank (line 122)
    pq_citations,   \* the citations of the returned dictionary
    hc_pc,          \* GET /health: "off" | "idle" | "database" | "ollama" |
                    \*   "phoenix" | "respond" | "responded"
    hc_services,    \* its services dict
    hc_outcomes,    \* what each dependency did when it was checked
    hc_resp,        \* its response
    gs_pc,          \* generate_stream run alone: "off" | "call" | "done"
    gs_answer,      \* the answer it streams
    gs_events,      \* the events it yielded
    fk_enforced,    \* whether messages.conversation_id is a foreign key
    conversations,  \* table conversations: id -> [created_at, updated_at]
    messages,       \* table messages: the rows in insertion order
    clock,          \* what datetime.now() returns
    req,            \* the HTTP requests in flight
    gr_pc,          \* get_recent_messages call: "off" | "call" | "done" | "raised"
    gr_args,        \* its arguments conversation_id and n
    gr_result,      \* the list it returned
    mc,             \* ConversationMemory calls in flight, one per caller
    ev_pc,          \* generate_evaluation_dataset: "off" | "loop" | "done"
    ev_in,          \* its arguments, and what its collaborators do per question
    ev_i,           \* the questions its loop has gone through
    ev_results,     \* its results list
    tl_pc,          \* the crew's tasks run through the agent tools: "off" |
                    \*   "query" | "retrieval" | "answer" | "done" | "aborted"
    tl_in,          \* which collaborator calls raise
    tl_out          \* what each tool's _run returned, or that it raised

rrVars == <<rr_pc, rr_documents, rr_top_k, rr_scores, rr_raises, rr_result>>
ceVars == <<ce_pc, ce_nodes, ce_result>>
pqVars == <<pq_pc, pq_calls, pq_tool, pq_answer, pq_nodes, pq_reranked, pq_citations>>
settingsVars == <<top_k_rerank, top_k_retrieval>>
ingVars == <<index, ing_resp>>
hcVars == <<hc_pc, hc_services, hc_outcomes, hc_resp>>
gsVars == <<gs_pc, gs_answer, gs_events>>
storeVars == <<fk_enforced, conversations, messages, clock>>
grVars == <<gr_pc, gr_args, gr_result>>
memVars == <<mc>>
evVars == <<ev_pc, ev_in, ev_i, ev_results>>
toolVars == <<tl_pc, tl_in, tl_out>>
apiVars == <<storeVars, req, grVars, memVars, evVars, toolVars>>
vars == <<settingsVars, rrVars, ceVars, ingVars, pqVars, hcVars, gsVars, apiVars>>

\* what the actions of one component leave alone
offRerank == <<ceVars, ingVars, pqVars, hcVars, gsVars, apiVars>>
offCite == <<rrVars, ingVars, pqVars, hcVars, gsVars, apiVars>>
offPipeline == <<rrVars, ceVars, hcVars, gsVars, apiVars>>
offHealth == <<settingsVars, rrVars, ceVars, ingVars, pqVars, gsVars, apiVars>>
offStream == <<settingsVars, rrVars, ceVars, ingVars, pqVars, hcVars, apiVars>>
offApi == <<settingsVars, rrVars, ceVars, ingVars, pqVars, hcVars, gsVars, grVars, memVars, evVars, toolVars>>
offRecent == <<settingsVars, rrVars, ceVars, ingVars, pqVars, hcVars, gsVars, storeVars, req, memVars, evVars, toolVars>>
offMemory == <<settingsVars, rrVars, ceVars, ingVars, pqVars, hcVars, gsVars, req, grVars, evVars, toolVars>>
offEval == <<settingsVars, rrVars, ceVars, ingVars, pqVars, hcVars, gsVars, storeVars, req, grVars, memVars, toolVars>>
offTools == <<settingsVars, rrVars, ceVars, ingVars, pqVars, hcVars, gsVars, storeVars, req, grVars, memVars, evVars>>

----------------------------------------------------------------------------
(* Bounds *)

MaxDocs == 3        \* longest documents list handed to rerank
MaxScore == 2       \* scores range over 0..MaxScore
MaxTopK == 2        \* top_k values range over 0..MaxTopK
MaxNodes == 3       \* longest node list handed to extract_citations

MaxAnswerLen == 4   \* longest answer text handed to generate_stream
MaxConvs == 2       \* most conversations the store holds
MaxMessages == 2    \* most message rows the store holds
MaxClock == 1       \* datetime.now() ranges over 0..MaxClock
MaxRecent == 2      \* the n of get_recent_messages ranges over 0..MaxRecent
MaxQuestions == 2   \* longest questions list handed to generate_evaluation_dataset
MaxIndex == 2       \* most chunks the vector index holds
MaxChunksPerDoc == 1 \* most chunks one document splits into

(* Program constants *)

CitationTextLimit == 200    \* citation_handler.py: text[:200]

----------------------------------------------------------------------------
(* Python helpers *)

None == <<>>
Some(x) == <<x>>
IsNone(o) == o = <<>>
Val(o) == o[1]

Min(a, b) == IF a <= b THEN a ELSE b

\* dict.get(key, default)
Get(d, key, default) == IF key \in DOMAIN d THEN d[key] ELSE default

\* s[:k] for k >= 0
Take(s, k) == SubSeq(s, 1, Min(k, Len(s)))

\* a text of n copies of the character c
Rep(c, n) == [i \in 1..n |-> c]

Range(s) == {s[i] : i \in 1..Len(s)}

----------------------------------------------------------------------------
(* Reranker.rerank *)

\* {**doc, "rerank_score": float(score)}
WithRerankScore(doc, score) ==
    [k \in DOMAIN doc \cup {"rerank_score"} |->
        IF k = "rerank_score" THEN score ELSE doc[k]]

\* scored_docs: zip(documents, scores)
ScoredDocs(documents, scores) ==
    [i \in 1..Min(Len(documents), Len(scores)) |->
        WithRerankScore(documents[i], scores[i])]

\* one step of list.sort(key=rerank_score, reverse=True): the sort is stable,
\* so d goes after every element whose score is at least its own
RECURSIVE InsertDesc(_, _)
InsertDescSwapped(s, d) ==
    IF s = <<>> THEN <<d>>
    ELSE IF Head(s).rerank_score <= d.rerank_score
         THEN <<Head(s)>> \o InsertDesc(Tail(s), d)
         ELSE <<d>> \o s
InsertDesc(s, d) ==
    IF s = <<>> THEN <<d>>
    ELSE IF Head(s).rerank_score >= d.rerank_score
         THEN <<Head(s)>> \o InsertDesc(Tail(s), d)
         ELSE <<d>> \o s

RECURSIVE SortDesc(_)
SortDesc(s) ==
    IF s = <<>> THEN <<>>
    ELSE InsertDesc(SortDesc(SubSeq(s, 1, Len(s) - 1)), s[Len(s)])

\* the except branch: documents[:top_k] if top_k else documents
RerankFallback(documents, k) ==
    IF k # 0 THEN Take(documents, k) ELSE documents

\* rerank(query, documents, top_k) with the settings default dflt, the
\* cross-encoder answering scores or raising
Rerank(documents, top_k, dflt, scores, raises) ==
    IF documents = <<>> THEN <<>>
    ELSE LET k == IF IsNone(top_k) THEN dflt ELSE Val(top_k)
         IN  IF raises THEN RerankFallback(documents, k)
             ELSE Take(SortDesc(ScoredDocs(documents, scores)), k)

----------------------------------------------------------------------------
(* CitationHandler.extract_citations *)

\* node.node.text[:200] + "..." if len(node.node.text) > 200 else node.node.text
ExcerptWithoutEllipsis(text) ==
    IF Len(text) > CitationTextLimit
    THEN SubSeq(text, 1, CitationTextLimit)
    ELSE text
Excerpt(text) ==
    IF Len(text) > CitationTextLimit
    THEN SubSeq(text, 1, CitationTextLimit) \o <<".", ".", ".">>
    ELSE text

\* Citation(chunk_id=..., document_name=..., page_number=..., score=..., text=...)
Citation(node) ==
    [chunk_id      |-> node.node_id,
     document_name |-> Get(node.metadata, "file_name", "Unknown"),
     page_number   |-> Get(node.metadata, "page_number", None),
     score         |-> IF ~IsNone(node.score) /\ Val(node.score) # 0
                       THEN Val(node.score) ELSE 0,
     text          |-> Excerpt(node.text)]

\* the loop: for node in nodes: citations.append(Citation(...))
RECURSIVE ExtractLoop(_, _)
ExtractLoop(nodes, citations) ==
    IF nodes = <<>> THEN citations
    ELSE ExtractLoop(Tail(nodes), Append(citations, Citation(Head(nodes))))

ExtractCitationsScoredOnly(nodes) ==
    ExtractLoop(SelectSeq(nodes, LAMBDA n : ~IsNone(n.score)), <<>>)
ExtractCitations(nodes) == ExtractLoop(nodes, <<>>)

----------------------------------------------------------------------------
(* Inputs of the pure-function specifications *)

\* documents as RAGRetriever.format_nodes builds them
Doc(i) == [node_id |-> i, text |-> Rep("x", i), score |-> Some(i),
           metadata |-> [file_name |-> "a.txt"]]

DocLists == {[i \in 1..n |-> Doc(i)] : n \in 0..MaxDocs}
ScoreLists(n) == [1..n -> 0..MaxScore]
TopKArgs == {None} \cup {Some(k) : k \in 0..MaxTopK}
TopKSettings == 0..MaxTopK

\* NodeWithScore values: with and without score, file_name, page_number; texts
\* around the excerpt limit
NodePool ==
    { [node_id |-> 1, text |-> Rep("x", 3), score |-> Some(2),
       metadata |-> [file_name |-> "a.txt", page_number |-> Some(1)]],
      [node_id |-> 2, text |-> Rep("y", CitationTextLimit), score |-> None,
       metadata |-> [file_name |-> "b.txt"]],
      [node_id |-> 3, text |-> Rep("z", CitationTextLimit + 1), score |-> Some(0),
       metadata |-> [page_number |-> Some(7)]],
      [node_id |-> 4, text |-> <<>>, score |-> Some(1),
       metadata |-> << >>] }

RECURSIVE SeqsUpTo(_, _)
SeqsUpTo(S, n) ==
    IF n = 0 THEN {<<>>}
    ELSE LET shorter == SeqsUpTo(S, n - 1)
         IN  shorter \cup {Append(s, x) : s \in {t \in shorter : Len(t) = n - 1}, x \in S}

----------------------------------------------------------------------------
(* Idle values of each component, for the specifications that do not run it *)

RerankOff ==
    /\ rr_pc = "off" /\ rr_documents = <<>> /\ rr_top_k = None
    /\ rr_scores = <<>> /\ rr_raises = FALSE /\ rr_result = <<>>

CiteOff == ce_pc = "off" /\ ce_nodes = <<>> /\ ce_result = <<>>

NoIngestResp ==
    [status |-> "none", success |-> FALSE, chunks_created |-> 0,
     message |-> "", file_path |-> "", stored |-> {}, failed |-> ""]

NoToolResult == [status |-> "none", docs |-> <<>>]

HealthOff ==
    hc_pc = "off" /\ hc_services = << >> /\ hc_outcomes = << >> /\ hc_resp = << >>

StreamOff == gs_pc = "off" /\ gs_answer = <<>> /\ gs_events = <<>>

RecentOff == gr_pc = "off" /\ gr_args = << >> /\ gr_result = <<>>

MemoryOff == mc = << >>

EvalOff == ev_pc = "off" /\ ev_in = << >> /\ ev_i = 0 /\ ev_results = <<>>

ToolsOff == tl_pc = "off" /\ tl_in = << >> /\ tl_out = << >>

ApiOff ==
    /\ RecentOff
    /\ MemoryOff
    /\ EvalOff
    /\ ToolsOff
    /\ fk_enforced = FALSE
    /\ conversations = << >>
    /\ messages = <<>>
    /\ clock = 0
    /\ req = << >>

PipelineOff ==
    /\ top_k_retrieval = 1
    /\ index = {}
    /\ ing_resp = NoIngestResp
    /\ pq_pc = "off" /\ pq_calls = <<>> /\ pq_tool = NoToolResult
    /\ pq_answer = "" /\ pq_nodes = <<>> /\ pq_reranked = <<>> /\ pq_citations = <<>>

----------------------------------------------------------------------------
(* SpecRerank: Reranker.rerank on every bounded input *)

InitRerank ==
    /\ top_k_rerank \in TopKSettings
    /\ rr_pc = "call"
    /\ rr_documents \in DocLists
    /\ rr_top_k \in TopKArgs
    /\ rr_scores \in ScoreLists(Len(rr_documents))
    /\ rr_raises \in BOOLEAN
    /\ rr_result = <<>>
    /\ CiteOff
    /\ PipelineOff
    /\ HealthOff /\ StreamOff /\ ApiOff

RerankCall ==
    /\ rr_pc = "call"
    /\ rr_result' = Rerank(rr_documents, rr_top_k, top_k_rerank, rr_scores, rr_raises)
    /\ rr_pc' = "done"
    /\ UNCHANGED <<settingsVars, rr_documents, rr_top_k, rr_scores, rr_raises, offRerank>>

NextRerank == RerankCall

SpecRerank == InitRerank /\ [][NextRerank]_vars

----------------------------------------------------------------------------
(* SpecCite: CitationHandler.extract_citations on every bounded input *)

InitCite ==
    /\ top_k_rerank = 0
    /\ RerankOff
    /\ PipelineOff
    /\ ce_pc = "call"
    /\ ce_nodes \in SeqsUpTo(NodePool, MaxNodes)
    /\ ce_result = <<>>
    /\ HealthOff /\ StreamOff /\ ApiOff

CiteCall ==
    /\ ce_pc = "call"
    /\ ce_result' = ExtractCitations(ce_nodes)
    /\ ce_pc' = "done"
    /\ UNCHANGED <<settingsVars, ce_nodes, offCite>>

NextCite == CiteCall

SpecCite == InitCite /\ [][NextCite]_vars

----------------------------------------------------------------------------
(* The vector index, RAGRetriever and document ingestion *)

EmptyDict == << >>

\* the texts a chunk can hold
ChunkTexts == {<<"a">>, <<"b">>}

\* the embedding similarity of a chunk text to the query, and the
\* cross-encoder's score of the pair (query, text): both are deterministic
\* functions of the text, and they rank the texts in opposite orders
EmbedSim(text) == IF text = <<"a">> THEN 2 ELSE 1
CrossScore(text) == IF text = <<"a">> THEN 1 ELSE 2

\* similarity search: chunk c is ranked before chunk d
RankedBefore(c, d) ==
    \/ EmbedSim(c.text) > EmbedSim(d.text)
    \/ EmbedSim(c.text) = EmbedSim(d.text) /\ c.node_id < d.node_id

RECURSIVE TopK(_, _)
TopK(S, k) ==
    IF k = 0 \/ S = {} THEN <<>>
    ELSE LET best == CHOOSE c \in S : \A d \in S \ {c} : RankedBefore(c, d)
         IN  <<best>> \o TopK(S \ {best}, k - 1)

\* RAGRetriever.retrieve(query): the similarity_top_k best chunks as
\* NodeWithScore values
Retrieve(idx, k) ==
    LET best == TopK(idx, k)
    IN  [i \in 1..Len(best) |->
            [node_id |-> best[i].node_id, text |-> best[i].text,
             score |-> Some(EmbedSim(best[i].text)), metadata |-> best[i].metadata]]

\* RAGRetriever.format_nodes
FormatNodes(nodes) ==
    [i \in 1..Len(nodes) |->
        [text |-> nodes[i].text, score |-> nodes[i].score,
         metadata |-> nodes[i].metadata, node_id |-> nodes[i].node_id]]

\* self.model.predict(pairs) on pairs [query, doc.get("text", "")]
Predict(documents) ==
    [i \in 1..Len(documents) |-> CrossScore(Get(documents[i], "text", <<>>))]

\* dict.update: the keys of extra override those of d
Update(d, extra) ==
    [k \in DOMAIN d \cup DOMAIN extra |-> IF k \in DOMAIN extra THEN extra[k] ELSE d[k]]

\* Path(file_path).exists() and Path(file_path).name
FileExists(file_path) == file_path # "missing.txt"
FileName(file_path) == file_path

\* DocumentProcessor.process_file: the metadata of a converted file
ProcessFileMetadata(file_path) ==
    [file_name |-> FileName(file_path), file_path |-> file_path]

\* ChunkingStrategy.chunk_document: one chunk per node of the splitter
ChunkMetadata(metadata, i, n) ==
    Update(metadata,
           [chunk_id |-> <<Get(metadata, "file_name", "doc"), "_chunk_", i>>,
            chunk_index |-> i, total_chunks |-> n])

ChunkDocument(splits, metadata) ==
    [j \in 1..Len(splits) |->
        [text |-> splits[j], metadata |-> ChunkMetadata(metadata, j - 1, Len(splits))]]

\* ChunkingStrategy.chunk_documents([doc_data]): a chunking error is logged
\* and the document skipped
ChunkDocuments(splits, metadata, chunk_raises) ==
    IF chunk_raises THEN <<>> ELSE ChunkDocument(splits, metadata)

\* VectorStore.add_documents on a fresh VectorStore: a non-empty list is
\* indexed, an empty one only loads the existing index
StoredChunks(idx, chunks, file_path) ==
    {[node_id |-> Cardinality(idx) + j, text |-> chunks[j].text,
      metadata |-> chunks[j].metadata, source_file |-> FileName(file_path)]
        : j \in 1..Len(chunks)}

IngestFailure(file_path, failed) ==
    [status |-> "done", success |-> FALSE, chunks_created |-> 0,
     message |-> "Error ingesting document:", file_path |-> file_path, stored |-> {},
     failed |-> failed]

\* the first step of the request that failed, "" when none did
FailedStep(file_path, req_metadata, convert_raises, chunk_raises, store_raises) ==
    IF ~FileExists(file_path) THEN "file"
    ELSE IF convert_raises THEN "convert"
    ELSE IF IsNone(req_metadata) THEN "metadata"
    ELSE IF chunk_raises THEN "chunk"
    ELSE IF store_raises THEN "store"
    ELSE ""

\* POST /documents/ingest.  convert_raises: Docling fails on the file;
\* splits: the texts the splitter cuts the document into; chunk_raises: the
\* splitter or its embedding model fails; store_raises: the vector store
\* fails, after it has written some of the chunks (possibly none).
IngestDocument(file_paths, metadatas, split_texts) ==
    \E file_path \in file_paths, req_metadata \in metadatas,
       splits \in SeqsUpTo(split_texts, MaxChunksPerDoc),
       convert_raises \in BOOLEAN, chunk_raises \in BOOLEAN, store_raises \in BOOLEAN :
        /\ Cardinality(index) + Len(splits) <= MaxIndex
        /\ LET failed == FailedStep(file_path, req_metadata, convert_raises,
                                    chunk_raises, store_raises)
           IN
           IF ~FileExists(file_path) \/ convert_raises \/ IsNone(req_metadata)
           THEN /\ ing_resp' = IngestFailure(file_path, failed)
                /\ index' = index
           ELSE LET metadata == Update(ProcessFileMetadata(file_path), Val(req_metadata))
                    chunks == ChunkDocuments(splits, metadata, chunk_raises)
                    stored == StoredChunks(index, chunks, file_path)
                IN  IF store_raises
                    THEN /\ ing_resp' = IngestFailure(file_path, failed)
                         /\ \E written \in 0..Len(chunks) :
                               index' = index \cup
                                   {c \in stored : c.node_id <= Cardinality(index) + written}
                    ELSE /\ index' = index \cup stored
                         /\ ing_resp' =
                              [status |-> "done", success |-> TRUE,
                               chunks_created |-> Len(chunks),
                               message |-> "Successfully ingested document:",
                               file_path |-> file_path,
                               stored |-> {c.node_id : c \in stored},
                               failed |-> failed]
        /\ UNCHANGED <<settingsVars, offPipeline, pqVars>>

----------------------------------------------------------------------------
(* CrewOrchestrator.process_query *)

NodeIds(s) == {Get(s[i], "node_id", None) : i \in 1..Len(s)}

\* [node for node in nodes if node.node.node_id in
\*      [doc.get("node_id") for doc in reranked_docs]]
CitedNodesUnfiltered(nodes, reranked_docs) == nodes
CitedNodes(nodes, reranked_docs) ==
    SelectSeq(nodes, LAMBDA node : node.node_id \in NodeIds(reranked_docs))

\* entry of process_query: the three tasks and the crew are built
StartQuery ==
    /\ pq_pc = "idle"
    /\ pq_pc' = "query"
    /\ pq_calls' = <<>>
    /\ pq_tool' = NoToolResult
    /\ pq_answer' = ""
    /\ pq_nodes' = <<>> /\ pq_reranked' = <<>> /\ pq_citations' = <<>>
    /\ UNCHANGED <<settingsVars, offPipeline, ingVars>>

\* task 1, QueryUnderstandingTool._run: an LLM failure becomes an error string
QueryUnderstanding ==
    \E llm_raises \in BOOLEAN :
        /\ pq_pc = "query"
        /\ pq_pc' = "retrieval"
        /\ pq_calls' = Append(pq_calls, "query_understanding")
        /\ UNCHANGED <<settingsVars, offPipeline, ingVars,
                       pq_tool, pq_answer, pq_nodes, pq_reranked, pq_citations>>

\* task 2, DocumentRetrievalTool._run: retrieve, format, rerank; any failure
\* becomes the string "Retrieval error: ..."
RetrievalTool ==
    \E retrieve_raises \in BOOLEAN, predict_raises \in BOOLEAN :
        /\ pq_pc = "retrieval"
        /\ pq_pc' = "answer"
        /\ IF retrieve_raises
           THEN /\ pq_tool' = [status |-> "error", docs |-> <<>>]
                /\ pq_calls' = Append(pq_calls, "retrieve")
           ELSE LET formatted_docs == FormatNodes(Retrieve(index, top_k_retrieval))
                    reranked_docs == Rerank(formatted_docs, None, top_k_rerank,
                                            Predict(formatted_docs), predict_raises)
                IN  /\ pq_tool' = [status |-> "ok", docs |-> reranked_docs]
                    /\ pq_calls' = pq_calls \o <<"retrieve", "rerank">>
        /\ UNCHANGED <<settingsVars, offPipeline, ingVars,
                       pq_answer, pq_nodes, pq_reranked, pq_citations>>

\* task 3, AnswerGenerationTool._run on the context of the earlier tasks: an
\* LLM failure becomes an error string; the crew's result is the answer
AnswerGeneration ==
    \E llm_raises \in BOOLEAN :
        /\ pq_pc = "answer"
        /\ pq_pc' = "post"
        /\ pq_calls' = Append(pq_calls, "answer_generation")
        /\ pq_answer' = IF llm_raises THEN "Answer generation error:" ELSE "answer"
        /\ UNCHANGED <<settingsVars, offPipeline, ingVars,
                       pq_tool, pq_nodes, pq_reranked, pq_citations>>

\* crew.kickoff raises (an agent's own LLM call fails): process_query logs
\* and re-raises
CrewRaises ==
    /\ pq_pc \in {"query", "retrieval", "answer"}
    /\ pq_pc' = "raised"
    /\ UNCHANGED <<settingsVars, offPipeline, ingVars,
                   pq_calls, pq_tool, pq_answer, pq_nodes, pq_reranked, pq_citations>>

\* lines 120-148: the orchestrator's own retrieve and rerank, the citations,
\* the returned dictionary; a retriever failure is re-raised
PostRetrieval ==
    \E retrieve_raises \in BOOLEAN, predict_raises \in BOOLEAN :
        /\ pq_pc = "post"
        /\ IF retrieve_raises
           THEN /\ pq_pc' = "raised"
                /\ pq_calls' = Append(pq_calls, "retrieve")
                /\ UNCHANGED <<pq_nodes, pq_reranked, pq_citations>>
           ELSE LET nodes == Retrieve(index, top_k_retrieval)
                    formatted_docs == FormatNodes(nodes)
                    reranked_docs == Rerank(formatted_docs, None, top_k_rerank,
                                            Predict(formatted_docs), predict_raises)
                IN  /\ pq_pc' = "returned"
                    /\ pq_nodes' = nodes
                    /\ pq_reranked' = reranked_docs
                    /\ pq_citations' = ExtractCitations(CitedNodes(nodes, reranked_docs))
                    /\ pq_calls' = pq_calls \o <<"retrieve", "rerank", "extract_citations">>
        /\ UNCHANGED <<settingsVars, offPipeline, ingVars, pq_tool, pq_answer>>

\* the caller has the result (or the exception); the orchestrator is free
FinishQuery ==
    /\ pq_pc \in {"returned", "raised"}
    /\ pq_pc' = "idle"
    /\ UNCHANGED <<settingsVars, offPipeline, ingVars,
                   pq_calls, pq_tool, pq_answer, pq_nodes, pq_reranked, pq_citations>>

----------------------------------------------------------------------------
(* Spec: the query pipeline, with documents ingested while it runs *)

Init ==
    /\ top_k_rerank \in 1..MaxTopK
    /\ top_k_retrieval \in 1..MaxTopK
    /\ RerankOff
    /\ CiteOff
    /\ HealthOff /\ StreamOff /\ ApiOff
    /\ index = {}
    /\ ing_resp = NoIngestResp
    /\ pq_pc = "idle" /\ pq_calls = <<>> /\ pq_tool = NoToolResult
    /\ pq_answer = "" /\ pq_nodes = <<>> /\ pq_reranked = <<>> /\ pq_citations = <<>>

Next ==
    \/ IngestDocument({"a.txt"}, {Some(EmptyDict)}, ChunkTexts)
    \/ StartQuery
    \/ QueryUnderstanding
    \/ RetrievalTool
    \/ AnswerGeneration
    \/ CrewRaises
    \/ PostRetrieval
    \/ FinishQuery

Spec == Init /\ [][Next]_vars

----------------------------------------------------------------------------
(* SpecIngest: POST /documents/ingest on every bounded request *)

IngestPaths == {"a.txt", "b.txt", "missing.txt"}
IngestMetadatas ==
    {None, Some(EmptyDict), Some([file_name |-> "other.txt"]), Some([page_number |-> Some(1)])}

InitIngest ==
    /\ top_k_rerank = 0
    /\ top_k_retrieval = 1
    /\ RerankOff
    /\ CiteOff
    /\ HealthOff /\ StreamOff /\ ApiOff
    /\ index = {}
    /\ ing_resp = NoIngestResp
    /\ pq_pc = "off" /\ pq_calls = <<>> /\ pq_tool = NoToolResult
    /\ pq_answer = "" /\ pq_nodes = <<>> /\ pq_reranked = <<>> /\ pq_citations = <<>>

NextIngest == IngestDocument(IngestPaths, IngestMetadatas, {<<"a">>})

SpecIngest == InitIngest /\ [][NextIngest]_vars

----------------------------------------------------------------------------
(* GET /health *)

Healthy == <<"h", "e", "a", "l", "t", "h", "y">>
Unhealthy == <<"u", "n">> \o Healthy
\* f"unhealthy: {str(e)}"
UnhealthyWith(error) == Unhealthy \o <<":", " ">> \o error
ErrorText == <<"e", "r", "r">>

\* Python's `part in text` on strings
Contains(text, part) ==
    \E i \in 0..(Len(text) - Len(part)) : SubSeq(text, i + 1, i + Len(part)) = part

\* d[key] = value
SetItem(d, key, value) ==
    [k \in DOMAIN d \cup {key} |-> IF k = key THEN value ELSE d[k]]

\* lines 59-64.  "engine_raises": ConversationMemory() raises; "unreachable":
\* check_connection catches the failure and returns False, which the handler
\* does not look at
DatabaseOutcomes == {"connected", "unreachable", "engine_raises"}
DatabaseCheck(services, outcome) ==
    IF outcome = "engine_raises"
    THEN SetItem(services, "database", UnhealthyWith(ErrorText))
    ELSE SetItem(services, "database", Healthy)

\* lines 67-76 and 79-88.  "200", "404", "503": the status code of the answer;
\* "raises": the import, the connection or the timeout fails
HttpOutcomes == {"200", "404", "503", "raises"}
HttpCheckNoEntryOnError(services, name, outcome) ==
    IF outcome = "raises" THEN services
    ELSE IF outcome = "200" THEN SetItem(services, name, Healthy)
    ELSE SetItem(services, name, Unhealthy)
HttpCheck(services, name, outcome) ==
    IF outcome = "raises" THEN SetItem(services, name, UnhealthyWith(ErrorText))
    ELSE IF outcome = "200" THEN SetItem(services, name, Healthy)
    ELSE SetItem(services, name, Unhealthy)

\* all("healthy" in status for status in services.values())
AllHealthy(services) == \A k \in DOMAIN services : Contains(services[k], Healthy)

\* HealthResponse(status=..., timestamp=datetime.now(), services=services)
HealthResponse(services, now) ==
    [status_code |-> 200,
     status |-> IF AllHealthy(services) THEN "healthy" ELSE "degraded",
     timestamp |-> Some(now),
     services |-> services]

HealthStart ==
    /\ hc_pc = "idle"
    /\ hc_pc' = "database"
    /\ hc_services' = << >>
    /\ hc_outcomes' = << >>
    /\ hc_resp' = << >>
    /\ UNCHANGED offHealth

CheckDatabase ==
    \E outcome \in DatabaseOutcomes :
        /\ hc_pc = "database"
        /\ hc_pc' = "ollama"
        /\ hc_services' = DatabaseCheck(hc_services, outcome)
        /\ hc_outcomes' = SetItem(hc_outcomes, "database", outcome)
        /\ UNCHANGED <<hc_resp, offHealth>>

CheckOllama ==
    \E outcome \in HttpOutcomes :
        /\ hc_pc = "ollama"
        /\ hc_pc' = "phoenix"
        /\ hc_services' = HttpCheck(hc_services, "ollama", outcome)
        /\ hc_outcomes' = SetItem(hc_outcomes, "ollama", outcome)
        /\ UNCHANGED <<hc_resp, offHealth>>

CheckPhoenix ==
    \E outcome \in HttpOutcomes :
        /\ hc_pc = "phoenix"
        /\ hc_pc' = "respond"
        /\ hc_services' = HttpCheck(hc_services, "phoenix", outcome)
        /\ hc_outcomes' = SetItem(hc_outcomes, "phoenix", outcome)
        /\ UNCHANGED <<hc_resp, offHealth>>

HealthRespond ==
    /\ hc_pc = "respond"
    /\ hc_pc' = "responded"
    /\ hc_resp' = HealthResponse(hc_services, clock)
    /\ UNCHANGED <<hc_services, hc_outcomes, offHealth>>

\* the client has the answer; the next request may come
HealthFinish ==
    /\ hc_pc = "responded"
    /\ hc_pc' = "idle"
    /\ UNCHANGED <<hc_services, hc_outcomes, hc_resp, offHealth>>

InitHealth ==
    /\ top_k_rerank = 0
    /\ RerankOff /\ CiteOff /\ PipelineOff /\ StreamOff /\ ApiOff
    /\ hc_pc = "idle" /\ hc_services = << >> /\ hc_outcomes = << >> /\ hc_resp = << >>

NextHealth ==
    \/ HealthStart
    \/ CheckDatabase
    \/ CheckOllama
    \/ CheckPhoenix
    \/ HealthRespond
    \/ HealthFinish

SpecHealth == InitHealth /\ [][NextHealth]_vars

----------------------------------------------------------------------------
(* openai_chat_completions.generate_stream *)

IsSpace(c) == c = " "

\* str.split(): the maximal runs of non-whitespace characters, in order
RECURSIVE SplitLoop(_, _, _)
SplitLoop(text, word, out) ==
    IF text = <<>>
    THEN IF word = <<>> THEN out ELSE Append(out, word)
    ELSE IF IsSpace(Head(text))
         THEN SplitLoop(Tail(text), <<>>, IF word = <<>> THEN out ELSE Append(out, word))
         ELSE SplitLoop(Tail(text), Append(word, Head(text)), out)

Split(text) == SplitLoop(text, <<>>, <<>>)

\* "delta": {"content": chunk + " "}, "finish_reason": None
DeltaEvent(chunk) ==
    [sentinel |-> FALSE, content |-> Some(chunk \o <<" ">>), finish_reason |-> None]
\* "delta": {}, "finish_reason": "stop"
FinalEvent == [sentinel |-> FALSE, content |-> None, finish_reason |-> Some("stop")]
\* "data: [DONE]"
DoneEvent == [sentinel |-> TRUE, content |-> None, finish_reason |-> None]

\* everything generate_stream yields, in order
StreamEvents(response) ==
    LET chunks == Split(response)
    IN  [i \in 1..Len(chunks) |-> DeltaEvent(chunks[i])] \o <<FinalEvent, DoneEvent>>

AnswerChars == {"a", "b", " "}

InitStream ==
    /\ top_k_rerank = 0
    /\ RerankOff /\ CiteOff /\ PipelineOff /\ HealthOff /\ ApiOff
    /\ gs_pc = "call"
    /\ gs_answer \in SeqsUpTo(AnswerChars, MaxAnswerLen)
    /\ gs_events = <<>>

GenerateStream ==
    /\ gs_pc = "call"
    /\ gs_pc' = "done"
    /\ gs_events' = StreamEvents(gs_answer)
    /\ UNCHANGED <<gs_answer, offStream>>

NextStream == GenerateStream

SpecStream == InitStream /\ [][NextStream]_vars

----------------------------------------------------------------------------
(* ConversationMemory: the conversation store *)

\* INSERT INTO conversations: a fresh uuid4, created_at = updated_at = now
NewConversationId(convs) == Cardinality(DOMAIN convs) + 1
InsertConversation(convs, now) ==
    [c \in DOMAIN convs \cup {NewConversationId(convs)} |->
        IF c \in DOMAIN convs THEN convs[c]
        ELSE [created_at |-> now, updated_at |-> now]]

\* json.dumps(metadata) if metadata else None
StoredMetadata(metadata) ==
    IF IsNone(metadata) \/ Val(metadata) = EmptyDict THEN None ELSE metadata

\* INSERT INTO messages
InsertMessageNoMetadata(rows, conversation_id, role, content, metadata, now) ==
    Append(rows, [id |-> Len(rows) + 1, conversation_id |-> conversation_id,
                  role |-> role, content |-> content,
                  metadata |-> None, created_at |-> now])
InsertMessage(rows, conversation_id, role, content, metadata, now) ==
    Append(rows, [id |-> Len(rows) + 1, conversation_id |-> conversation_id,
                  role |-> role, content |-> content,
                  metadata |-> StoredMetadata(metadata), created_at |-> now])

\* UPDATE conversations SET updated_at = :updated_at WHERE conversation_id = ...
TouchConversationAndCreated(convs, conversation_id, now) ==
    [c \in DOMAIN convs |->
        IF c = conversation_id THEN [created_at |-> now, updated_at |-> now]
        ELSE convs[c]]
TouchConversation(convs, conversation_id, now) ==
    [c \in DOMAIN convs |->
        IF c = conversation_id THEN [convs[c] EXCEPT !.updated_at = now]
        ELSE convs[c]]

\* add_message raises: the database fails, or the foreign key rejects a
\* conversation_id that is not in conversations
AddMessageRejected(conversation_id) ==
    fk_enforced /\ conversation_id \notin DOMAIN conversations

\* SELECT ... FROM messages WHERE conversation_id = ... ORDER BY created_at ASC:
\* every order of the rows that is ascending in created_at (rows with equal
\* created_at come in any order)
ConversationRows(rows, conversation_id) ==
    SelectSeq(rows, LAMBDA m : m.conversation_id = conversation_id)

OrderedByCreatedAt(rows) ==
    LET n == Len(rows)
        perms == {p \in [1..n -> 1..n] : \A i, j \in 1..n : i # j => p[i] # p[j]}
    IN  {[i \in 1..n |-> rows[p[i]]] : p \in
            {q \in perms : \A i, j \in 1..n :
                i < j => rows[q[i]].created_at <= rows[q[j]].created_at}}

\* the message dictionaries of get_conversation_history
HistoryMessages(rows) ==
    [i \in 1..Len(rows) |->
        [role |-> rows[i].role, content |-> rows[i].content,
         created_at |-> rows[i].created_at, metadata |-> rows[i].metadata]]

\* get_conversation_history(conversation_id): None when the conversation does
\* not exist, else the dictionary with its messages
ConversationHistoriesNoneWhenEmpty(convs, rows, conversation_id) ==
    IF conversation_id \notin DOMAIN convs \/ ConversationRows(rows, conversation_id) = <<>>
    THEN {None}
    ELSE {Some([conversation_id |-> conversation_id,
                created_at |-> convs[conversation_id].created_at,
                updated_at |-> convs[conversation_id].updated_at,
                messages |-> HistoryMessages(ordered)])
            : ordered \in OrderedByCreatedAt(ConversationRows(rows, conversation_id))}
ConversationHistories(convs, rows, conversation_id) ==
    IF conversation_id \notin DOMAIN convs THEN {None}
    ELSE {Some([conversation_id |-> conversation_id,
                created_at |-> convs[conversation_id].created_at,
                updated_at |-> convs[conversation_id].updated_at,
                messages |-> HistoryMessages(ordered)])
            : ordered \in OrderedByCreatedAt(ConversationRows(rows, conversation_id))}

----------------------------------------------------------------------------
(* The HTTP handlers over the conversation store *)

Requests == {"r1", "r2"}

FreeRequest ==
    [kind |-> "free", pc |-> "free", conversation_id |-> None, message |-> "",
     messages |-> <<>>, stream |-> FALSE, history |-> None, result |-> None,
     status |-> 0, detail |-> <<>>, body |-> << >>, events |-> <<>>, fault |-> FALSE,
     supplied |-> None,
     pre |-> [messages |-> 0, conversations |-> {}, table |-> << >>]]

\* what the store held when a request arrived
StoreAtArrival ==
    [messages |-> Len(messages), conversations |-> DOMAIN conversations,
     table |-> conversations]

\* the message of the ChatRequest in slot r: each client sends its own
ChatMessage(r) == IF r = "r1" THEN "q1" ELSE "q2"

\* the messages of an OpenAI request: without a user message, with an empty
\* last user message, with a last user message
OpenAIMessageLists ==
    {<<[role |-> "system", content |-> "s"]>>,
     <<[role |-> "user", content |-> "q1"], [role |-> "user", content |-> ""]>>,
     <<[role |-> "user", content |-> "q2"], [role |-> "system", content |-> "s"],
       [role |-> "user", content |-> "q1"]>>}

\* for msg in request.messages: if msg.role == "user": user_message = msg.content
RECURSIVE LastUserMessage(_, _)
LastUserMessageKeepsFirst(msgs, user_message) ==
    IF msgs = <<>> THEN user_message
    ELSE LastUserMessage(Tail(msgs),
                         IF Head(msgs).role = "user" /\ IsNone(user_message)
                         THEN Some(Head(msgs).content)
                         ELSE user_message)
LastUserMessage(msgs, user_message) ==
    IF msgs = <<>> THEN user_message
    ELSE LastUserMessage(Tail(msgs),
                         IF Head(msgs).role = "user" THEN Some(Head(msgs).content)
                         ELSE user_message)

\* `not user_message`: None or the empty string
NoUserMessage(user_message) == IsNone(user_message) \/ Val(user_message) = ""

\* what process_query returns when it returns
QueryResults == {[response |-> <<"a", " ", "b">>, citations |-> <<"c1">>]}

\* CrewOrchestrator._build_context(conversation_history) raises: a falsy
\* history gives "", and the history the handlers pass is the dictionary of
\* get_conversation_history, on which conversation_history[-5:] raises
BuildContextRaises(conversation_history) == ~IsNone(conversation_history)

\* raise HTTPException(status_code=500, detail=f"Internal server error: {str(e)}")
InternalServerErrorBare(rq, error, fault) ==
    [rq EXCEPT !.pc = "done", !.status = 500, !.detail = <<error>>,
               !.history = None, !.result = None, !.fault = @ \/ fault]
InternalServerError(rq, error, fault) ==
    [rq EXCEPT !.pc = "done", !.status = 500,
               !.detail = <<"Internal server error:", error>>,
               !.history = None, !.result = None,
               !.fault = @ \/ fault]

Set(r, rq) == req' = [req EXCEPT ![r] = rq]

\* datetime.now() moves on
Tick ==
    /\ clock < MaxClock
    /\ clock' = clock + 1
    /\ UNCHANGED <<fk_enforced, conversations, messages, req, offApi>>

\* chat, lines 99-112: a request arrives, the orchestrator and the memory are
\* built, the conversation is the request's or a new one
ChatBegin(r) ==
    \E conversation_id \in {None} \cup {Some(c) : c \in DOMAIN conversations \cup {0}},
       init_raises \in BOOLEAN :
        /\ req[r].pc = "free"
        /\ LET rq == [FreeRequest EXCEPT !.kind = "chat",
                                         !.pre = StoreAtArrival,
                                         !.supplied = conversation_id,
                                         !.conversation_id = conversation_id,
                                         !.message = ChatMessage(r)]
           IN  IF init_raises
               THEN Set(r, InternalServerError(rq, "init", TRUE))
               ELSE Set(r, [rq EXCEPT !.pc = IF IsNone(conversation_id)
                                             THEN "create_conversation"
                                             ELSE "add_user"])
        /\ UNCHANGED <<storeVars, offApi>>

\* openai_chat_completions, lines 221-246: a request arrives, its last user
\* message is taken; the HTTPException(400) for a missing one is raised inside
\* the try block, whose `except Exception` turns it into the 500
OpenAIBegin(r) ==
    \E msgs \in OpenAIMessageLists, stream \in BOOLEAN, init_raises \in BOOLEAN :
        /\ req[r].pc = "free"
        /\ LET rq == [FreeRequest EXCEPT !.kind = "openai", !.messages = msgs,
                                         !.pre = StoreAtArrival,
                                         !.stream = stream]
               user_message == LastUserMessage(msgs, None)
           IN  IF NoUserMessage(user_message)
               THEN Set(r, InternalServerError(rq, "400: No user message found", FALSE))
               ELSE IF init_raises
               THEN Set(r, InternalServerError(rq, "init", TRUE))
               ELSE Set(r, [rq EXCEPT !.pc = "create_conversation",
                                      !.message = Val(user_message)])
        /\ UNCHANGED <<storeVars, offApi>>

\* await memory.create_conversation() of chat and of openai_chat_completions
CreateConversationStep(r) ==
    \E db_raises \in BOOLEAN :
        /\ req[r].kind \in {"chat", "openai"} /\ req[r].pc = "create_conversation"
        /\ Cardinality(DOMAIN conversations) < MaxConvs
        /\ IF db_raises
           THEN /\ Set(r, InternalServerError(req[r], "db", TRUE))
                /\ UNCHANGED conversations
           ELSE /\ conversations' = InsertConversation(conversations, clock)
                /\ Set(r, [req[r] EXCEPT !.pc = "add_user",
                               !.conversation_id = Some(NewConversationId(conversations))])
        /\ UNCHANGED <<fk_enforced, messages, clock, offApi>>

\* await memory.add_message(conversation_id, "user", message)
AddUserMessage(r) ==
    \E db_raises \in BOOLEAN :
        /\ req[r].kind \in {"chat", "openai"} /\ req[r].pc = "add_user"
        /\ Len(messages) < MaxMessages
        /\ LET conversation_id == Val(req[r].conversation_id)
           IN  IF db_raises \/ AddMessageRejected(conversation_id)
               THEN /\ Set(r, InternalServerError(req[r], "db", db_raises))
                    /\ UNCHANGED <<conversations, messages>>
               ELSE /\ messages' = InsertMessage(messages, conversation_id, "user",
                                                 req[r].message, None, clock)
                    /\ conversations' = TouchConversation(conversations, conversation_id, clock)
                    /\ Set(r, [req[r] EXCEPT !.pc = "history"])
        /\ UNCHANGED <<fk_enforced, clock, offApi>>

\* history = await memory.get_conversation_history(conversation_id)
GetHistory(r) ==
    \E db_raises \in BOOLEAN :
        /\ req[r].kind \in {"chat", "openai"} /\ req[r].pc = "history"
        /\ IF db_raises
           THEN Set(r, InternalServerError(req[r], "db", TRUE))
           ELSE \E history \in ConversationHistories(conversations, messages,
                                                     Val(req[r].conversation_id)) :
                    Set(r, [req[r] EXCEPT !.pc = "process", !.history = history])
        /\ UNCHANGED <<storeVars, offApi>>

\* result = await orchestrator.process_query(query, conversation_history=history)
ProcessQueryRollsBack(r) ==
    \E pipeline_raises \in BOOLEAN, result \in QueryResults :
        /\ req[r].kind \in {"chat", "openai"} /\ req[r].pc = "process"
        /\ IF BuildContextRaises(req[r].history) \/ pipeline_raises
           THEN /\ Set(r, InternalServerError(req[r], "pipeline", TRUE))
                /\ messages' = SubSeq(messages, 1, req[r].pre.messages)
           ELSE /\ Set(r, [req[r] EXCEPT !.pc = "add_assistant", !.result = Some(result)])
                /\ UNCHANGED messages
        /\ UNCHANGED <<fk_enforced, conversations, clock, offApi>>
ProcessQuery(r) ==
    \E pipeline_raises \in BOOLEAN, result \in QueryResults :
        /\ req[r].kind \in {"chat", "openai"} /\ req[r].pc = "process"
        /\ IF BuildContextRaises(req[r].history)
           THEN Set(r, InternalServerError(req[r], "history[-5:]", FALSE))
           ELSE IF pipeline_raises
           THEN Set(r, InternalServerError(req[r], "pipeline", TRUE))
           ELSE Set(r, [req[r] EXCEPT !.pc = "add_assistant", !.result = Some(result)])
        /\ UNCHANGED <<storeVars, offApi>>

\* await memory.add_message(conversation_id, "assistant", result["response"],
\*                          metadata={"citations": ...})
AddAssistantMessage(r) ==
    \E db_raises \in BOOLEAN :
        /\ req[r].kind \in {"chat", "openai"} /\ req[r].pc = "add_assistant"
        /\ Len(messages) < MaxMessages
        /\ LET conversation_id == Val(req[r].conversation_id)
               result == Val(req[r].result)
           IN  IF db_raises \/ AddMessageRejected(conversation_id)
               THEN /\ Set(r, InternalServerError(req[r], "db", db_raises))
                    /\ UNCHANGED <<conversations, messages>>
               ELSE /\ messages' = InsertMessage(messages, conversation_id, "assistant",
                                                 result.response,
                                                 Some([citations |-> result.citations]),
                                                 clock)
                    /\ conversations' = TouchConversation(conversations, conversation_id, clock)
                    /\ Set(r, [req[r] EXCEPT !.pc = "respond"])
        /\ UNCHANGED <<fk_enforced, clock, offApi>>

\* the ChatResponse of chat; the StreamingResponse over generate_stream or the
\* completion object of openai_chat_completions
Respond(r) ==
    /\ req[r].kind \in {"chat", "openai"} /\ req[r].pc = "respond"
    /\ LET result == Val(req[r].result)
       IN  IF req[r].kind = "chat"
           THEN Set(r, [req[r] EXCEPT !.pc = "done", !.status = 200, !.history = None,
                           !.body = [response |-> result.response,
                                     conversation_id |-> Val(req[r].conversation_id),
                                     citations |-> result.citations]])
           ELSE IF req[r].stream
           THEN Set(r, [req[r] EXCEPT !.pc = "done", !.status = 200, !.history = None,
                           !.events = StreamEvents(result.response)])
           ELSE Set(r, [req[r] EXCEPT !.pc = "done", !.status = 200, !.history = None,
                           !.body = [role |-> "assistant", content |-> result.response,
                                     finish_reason |-> "stop"]])
    /\ UNCHANGED <<storeVars, offApi>>

\* POST /conversations
CreateConversationEndpoint(r) ==
    \E db_raises \in BOOLEAN :
        /\ req[r].pc = "free"
        /\ Cardinality(DOMAIN conversations) < MaxConvs
        /\ LET rq == [FreeRequest EXCEPT !.kind = "create", !.pre = StoreAtArrival]
           IN  IF db_raises
               THEN /\ Set(r, InternalServerError(rq, "db", TRUE))
                    /\ UNCHANGED conversations
               ELSE /\ conversations' = InsertConversation(conversations, clock)
                    /\ Set(r, [rq EXCEPT !.pc = "done", !.status = 200,
                                   !.conversation_id = Some(NewConversationId(conversations)),
                                   !.body = [conversation_id |-> NewConversationId(conversations),
                                             created_at |-> clock, updated_at |-> clock,
                                             message_count |-> 0]])
        /\ UNCHANGED <<fk_enforced, messages, clock, offApi>>

\* GET /conversations/{conversation_id}
GetConversationEndpoint(r) ==
    \E c \in DOMAIN conversations \cup {0}, db_raises \in BOOLEAN :
        /\ req[r].pc = "free"
        /\ LET rq == [FreeRequest EXCEPT !.kind = "get", !.pre = StoreAtArrival,
                                         !.supplied = Some(c),
                                         !.conversation_id = Some(c)]
           IN  IF db_raises
               THEN Set(r, InternalServerError(rq, "db", TRUE))
               ELSE \E history \in ConversationHistories(conversations, messages, c) :
                        IF IsNone(history)
                        THEN Set(r, [rq EXCEPT !.pc = "done", !.status = 404,
                                               !.detail = <<"Conversation not found">>])
                        ELSE Set(r, [rq EXCEPT !.pc = "done", !.status = 200,
                                               !.body = Val(history)])
        /\ UNCHANGED <<storeVars, offApi>>

\* the client has the answer; the slot takes the next request
Recycle(r) ==
    /\ req[r].pc = "done"
    /\ Set(r, FreeRequest)
    /\ UNCHANGED <<storeVars, offApi>>

InitApi ==
    /\ top_k_rerank = 0
    /\ RerankOff /\ CiteOff /\ PipelineOff /\ HealthOff /\ StreamOff
    /\ fk_enforced \in BOOLEAN
    /\ conversations = << >>
    /\ messages = <<>>
    /\ clock = 0
    /\ req = [r \in Requests |-> FreeRequest]
    /\ RecentOff
    /\ MemoryOff
    /\ EvalOff
    /\ ToolsOff

\* the steps of the handlers serving request slot r
Handler(r) ==
    \/ ChatBegin(r)
    \/ OpenAIBegin(r)
    \/ CreateConversationStep(r)
    \/ AddUserMessage(r)
    \/ GetHistory(r)
    \/ ProcessQuery(r)
    \/ AddAssistantMessage(r)
    \/ Respond(r)
    \/ CreateConversationEndpoint(r)
    \/ GetConversationEndpoint(r)
    \/ Recycle(r)

\* requests served concurrently: their store calls interleave
NextApi == Tick \/ \E r \in Requests : Handler(r)

SpecApi == InitApi /\ [][NextApi]_vars

\* requests served one after the other
NextApiSerial == Tick \/ Handler("r1")

SpecApiSerial == InitApi /\ [][NextApiSerial]_vars

\* the steps of chat serving request slot r
ChatHandler(r) ==
    \/ ChatBegin(r)
    \/ CreateConversationStep(r)
    \/ AddUserMessage(r)
    \/ GetHistory(r)
    \/ ProcessQuery(r)
    \/ AddAssistantMessage(r)
    \/ Respond(r)
    \/ Recycle(r)

\* POST /chat requests served concurrently
NextChat == Tick \/ \E r \in Requests : ChatHandler(r)

SpecChat == InitApi /\ [][NextChat]_vars

----------------------------------------------------------------------------
(* SpecRecent: ConversationMemory.get_recent_messages on every bounded store *)

\* get_conversation_history(conversation_id, limit): `if limit:` appends
\* LIMIT to the query, which keeps the first `limit` rows of the ascending
\* order; None and 0 leave the query unlimited
ConversationHistoriesLimit(convs, rows, conversation_id, limit) ==
    IF conversation_id \notin DOMAIN convs THEN {None}
    ELSE {Some([conversation_id |-> conversation_id,
                created_at |-> convs[conversation_id].created_at,
                updated_at |-> convs[conversation_id].updated_at,
                messages |-> HistoryMessages(
                    IF IsNone(limit) \/ Val(limit) = 0 THEN ordered
                    ELSE Take(ordered, Val(limit)))])
            : ordered \in OrderedByCreatedAt(ConversationRows(rows, conversation_id))}

\* the message rows a store can hold for conversation 1
RecentRows ==
    {[id |-> 0, conversation_id |-> 1, role |-> "user", content |-> c,
      metadata |-> None, created_at |-> t] : c \in {"q1", "q2"}, t \in 0..MaxClock}

InitRecent ==
    /\ top_k_rerank = 0
    /\ RerankOff /\ CiteOff /\ PipelineOff /\ HealthOff /\ StreamOff
    /\ fk_enforced = FALSE
    /\ conversations = [c \in {1} |-> [created_at |-> 0, updated_at |-> 0]]
    /\ messages \in SeqsUpTo(RecentRows, MaxMessages)
    /\ clock = 0
    /\ req = << >>
    /\ MemoryOff
    /\ EvalOff
    /\ ToolsOff
    /\ gr_pc = "call"
    /\ gr_args \in [conversation_id : {0, 1}, n : 0..MaxRecent]
    /\ gr_result = <<>>

\* history = await self.get_conversation_history(conversation_id, limit=n);
\* the messages of a history, [] for none; a database error is re-raised
GetRecentMessages ==
    \E db_raises \in BOOLEAN :
        /\ gr_pc = "call"
        /\ IF db_raises
           THEN gr_pc' = "raised" /\ gr_result' = gr_result
           ELSE \E history \in ConversationHistoriesLimit(conversations, messages,
                                   gr_args.conversation_id, Some(gr_args.n)) :
                    /\ gr_pc' = "done"
                    /\ gr_result' = IF IsNone(history) THEN <<>>
                                    ELSE Val(history).messages
        /\ UNCHANGED <<gr_args, offRecent>>

NextRecent == GetRecentMessages

SpecRecent == InitRecent /\ [][NextRecent]_vars

----------------------------------------------------------------------------
(* SpecMemory: create_conversation and add_message called concurrently, by *)
(* the handlers of several server workers over the one database            *)

Callers == {"w1", "w2"}

NoCall == [op |-> "none", conversation_id |-> 0, role |-> "", now |-> 0]

\* create_conversation, lines 46-47: the id is drawn and now = datetime.now()
\* is read before the session is opened
CreateConversationBegin(w) ==
    /\ mc[w].op = "none"
    /\ mc' = [mc EXCEPT ![w] = [NoCall EXCEPT !.op = "create", !.now = clock]]
    /\ UNCHANGED <<storeVars, offMemory>>

\* create_conversation, lines 49-69: the INSERT commits or the error is re-raised
CreateConversationCommit(w) ==
    \E db_raises \in BOOLEAN :
        /\ mc[w].op = "create"
        /\ Cardinality(DOMAIN conversations) < MaxConvs
        /\ conversations' = IF db_raises THEN conversations
                            ELSE InsertConversation(conversations, mc[w].now)
        /\ mc' = [mc EXCEPT ![w] = NoCall]
        /\ UNCHANGED <<fk_enforced, messages, clock, offMemory>>

\* add_message, lines 92-93: now = datetime.now() is read before the session
\* is opened
AddMessageBegin(w) ==
    \E conversation_id \in DOMAIN conversations \cup {0}, role \in {"user", "assistant"} :
        /\ mc[w].op = "none"
        /\ mc' = [mc EXCEPT ![w] = [op |-> "add", conversation_id |-> conversation_id,
                                    role |-> role, now |-> clock]]
        /\ UNCHANGED <<storeVars, offMemory>>

\* add_message, lines 95-128: the INSERT and the UPDATE commit together, with
\* the now read before, or the error is re-raised
AddMessageCommit(w) ==
    \E db_raises \in BOOLEAN :
        /\ mc[w].op = "add"
        /\ Len(messages) < MaxMessages
        /\ IF db_raises \/ AddMessageRejected(mc[w].conversation_id)
           THEN UNCHANGED <<conversations, messages>>
           ELSE /\ messages' = InsertMessage(messages, mc[w].conversation_id,
                                             mc[w].role, "q1", None, mc[w].now)
                /\ conversations' = TouchConversation(conversations,
                                                      mc[w].conversation_id, mc[w].now)
        /\ mc' = [mc EXCEPT ![w] = NoCall]
        /\ UNCHANGED <<fk_enforced, clock, offMemory>>

\* datetime.now() moves on between the calls
MemoryTick ==
    /\ clock < MaxClock
    /\ clock' = clock + 1
    /\ UNCHANGED <<fk_enforced, conversations, messages, mc, offMemory>>

InitMemory ==
    /\ top_k_rerank = 0
    /\ RerankOff /\ CiteOff /\ PipelineOff /\ HealthOff /\ StreamOff /\ RecentOff
    /\ EvalOff /\ ToolsOff
    /\ fk_enforced \in BOOLEAN
    /\ conversations = << >>
    /\ messages = <<>>
    /\ clock = 0
    /\ req = << >>
    /\ mc = [w \in Callers |-> NoCall]

NextMemory ==
    \/ MemoryTick
    \/ \E w \in Callers :
        \/ CreateConversationBegin(w)
        \/ CreateConversationCommit(w)
        \/ AddMessageBegin(w)
        \/ AddMessageCommit(w)

SpecMemory == InitMemory /\ [][NextMemory]_vars

----------------------------------------------------------------------------
(* SpecEval: RAGASEvaluator.generate_evaluation_dataset *)

EvalQuestions == {"q1", "q2"}
EvalGroundTruths == {"g1", "g2"}

\* what the orchestrator answers to a question when it is run
OrchestratorResponse(question) == <<"answer to", question>>

\* self.orchestrator.process_query(question): process_query is `async def`
\* and the call is not awaited, so it runs nothing and returns a coroutine
\* object, whatever the orchestrator would do
ProcessQueryNotAwaited(question) == [type |-> "coroutine"]

\* result["response"]: a coroutine object is not subscriptable (TypeError)
SubscriptRaises(result) == result.type = "coroutine"

\* ground_truths[i] if ground_truths and i < len(ground_truths) else ""
GroundTruth(ground_truths, i) ==
    IF ~IsNone(ground_truths) /\ Val(ground_truths) # <<>> /\ i < Len(Val(ground_truths))
    THEN Val(ground_truths)[i + 1]
    ELSE ""

InitEval ==
    /\ top_k_rerank = 0
    /\ RerankOff /\ CiteOff /\ PipelineOff /\ HealthOff /\ StreamOff /\ RecentOff
    /\ MemoryOff /\ ToolsOff
    /\ fk_enforced = FALSE
    /\ conversations = << >>
    /\ messages = <<>>
    /\ clock = 0
    /\ req = << >>
    /\ ev_pc = "loop"
    /\ \E questions \in SeqsUpTo(EvalQuestions, MaxQuestions) :
          ev_in \in [questions : {questions},
                     ground_truths : {None} \cup
                         {Some(g) : g \in SeqsUpTo(EvalGroundTruths, MaxQuestions)},
                     retrieve_raises : [1..Len(questions) -> BOOLEAN],
                     orchestrator_raises : [1..Len(questions) -> BOOLEAN]]
    /\ ev_i = 0
    /\ ev_results = <<>>

\* one turn of the loop, lines 49-73, on question number ev_i (from 0)
EvalQuestion ==
    /\ ev_pc = "loop" /\ ev_i < Len(ev_in.questions)
    /\ LET question == ev_in.questions[ev_i + 1]
           result == ProcessQueryNotAwaited(question)
       IN  IF ev_in.retrieve_raises[ev_i + 1] \/ SubscriptRaises(result)
           THEN ev_results' = ev_results
           ELSE ev_results' = Append(ev_results,
                    [question |-> question, answer |-> result.response,
                     ground_truth |-> GroundTruth(ev_in.ground_truths, ev_i)])
    /\ ev_i' = ev_i + 1
    /\ UNCHANGED <<ev_pc, ev_in, offEval>>

\* Dataset.from_list(results)
EvalFinish ==
    /\ ev_pc = "loop" /\ ev_i = Len(ev_in.questions)
    /\ ev_pc' = "done"
    /\ UNCHANGED <<ev_in, ev_i, ev_results, offEval>>

NextEval == EvalQuestion \/ EvalFinish

SpecEval == InitEval /\ [][NextEval]_vars

----------------------------------------------------------------------------
(* SpecTools: the _run of the three agent tools, in the order of the crew's *)
(* tasks, with collaborators that raise                                    *)

\* what a _run gave its caller: a returned string, or an exception
Returned(value) == [raised |-> FALSE, value |-> value]
Raised == [raised |-> TRUE, value |-> ""]

\* QueryUnderstandingTool._run: the prompt is formatted, then inside try the
\* LLM is called and the call traced; except Exception returns the error string
QueryUnderstandingRunReraises(llm_raises) ==
    IF llm_raises THEN Raised ELSE Returned("analysis")
QueryUnderstandingRun(llm_raises) ==
    IF llm_raises THEN Returned("Query analysis error:") ELSE Returned("analysis")

\* DocumentRetrievalTool._run: retrieve, format_nodes, rerank, the result
\* string and the trace are all inside try; except Exception returns the
\* error string
DocumentRetrievalRun(retrieve_raises, rerank_raises) ==
    IF retrieve_raises \/ rerank_raises
    THEN Returned("Retrieval error:") ELSE Returned("Retrieved")

\* AnswerGenerationTool._run: as QueryUnderstandingTool._run
AnswerGenerationRun(llm_raises) ==
    IF llm_raises THEN Returned("Answer generation error:") ELSE Returned("answer")

InitTools ==
    /\ top_k_rerank = 0
    /\ RerankOff /\ CiteOff /\ PipelineOff /\ HealthOff /\ StreamOff /\ RecentOff
    /\ MemoryOff /\ EvalOff
    /\ fk_enforced = FALSE
    /\ conversations = << >>
    /\ messages = <<>>
    /\ clock = 0
    /\ req = << >>
    /\ tl_pc = "query"
    /\ tl_in \in [query : {"q1", "q2"}, query_llm_raises : BOOLEAN,
                  retrieve_raises : BOOLEAN, rerank_raises : BOOLEAN,
                  answer_llm_raises : BOOLEAN]
    /\ tl_out = << >>

\* the tool's result goes to the next task; an exception out of _run ends the run
ToolStep(stage, next, result) ==
    /\ tl_pc = stage
    /\ tl_out' = [s \in DOMAIN tl_out \cup {stage} |->
                     IF s = stage THEN result ELSE tl_out[s]]
    /\ tl_pc' = IF result.raised THEN "aborted" ELSE next
    /\ UNCHANGED <<tl_in, offTools>>

QueryUnderstandingTask ==
    ToolStep("query", "retrieval", QueryUnderstandingRun(tl_in.query_llm_raises))

DocumentRetrievalTask ==
    ToolStep("retrieval", "answer",
             DocumentRetrievalRun(tl_in.retrieve_raises, tl_in.rerank_raises))

AnswerGenerationTask ==
    ToolStep("answer", "done", AnswerGenerationRun(tl_in.answer_llm_raises))

NextTools == QueryUnderstandingTask \/ DocumentRetrievalTask \/ AnswerGenerationTask

SpecTools == InitTools /\ [][NextTools]_vars

----------------------------------------------------------------------------
(* Claims *)

CitationIds(citations) == {citations[i].chunk_id : i \in 1..Len(citations)}

\* C1: every process_query that returns cites only chunk ids that its own
\* retriever.retrieve call (line 121) returned, and only chunk ids that the
\* reranker returned for those nodes.
C1_CitationsWithinRetrievedAndReranked ==
    pq_pc = "returned" =>
        /\ CitationIds(pq_citations) \subseteq NodeIds(pq_nodes)
        /\ CitationIds(pq_citations) \subseteq NodeIds(pq_reranked)

\* a run that returned citations after the reranker dropped a retrieved node
C1_Witness ==
    /\ pq_pc = "returned"
    /\ pq_citations # <<>>
    /\ Len(pq_reranked) < Len(pq_nodes)

\* C2: every citation of a returned process_query has a chunk id among the
\* reranked chunks the document-retrieval tool produced during the crew
\* execution of that run (the context of the answer-generation stage).
C2_CitationsWithinAnswerContext ==
    pq_pc = "returned" =>
        CitationIds(pq_citations) \subseteq NodeIds(pq_tool.docs)

RerankK == IF IsNone(rr_top_k) THEN top_k_rerank ELSE Val(rr_top_k)

\* the documents that carry a rerank_score are in non-increasing score order
NonIncreasingRerankScore(docs) ==
    \A i, j \in 1..Len(docs) :
        (i < j /\ "rerank_score" \in DOMAIN docs[i] /\ "rerank_score" \in DOMAIN docs[j])
            => docs[i].rerank_score >= docs[j].rerank_score

\* C3: for a non-empty documents list and top_k >= 0 (explicit or the
\* settings default) rerank returns at most top_k documents, in
\* non-increasing rerank_score order.
C3_AtMostTopKSortedDescending ==
    (rr_pc = "done" /\ rr_documents # <<>>) =>
        /\ Len(rr_result) <= RerankK
        /\ NonIncreasingRerankScore(rr_result)

\* C4: when the cross-encoder raises, rerank returns exactly the first top_k
\* input documents in their original order, for every top_k including 0 and
\* the default.
C4_FallbackIsUnrankedTopK ==
    (rr_pc = "done" /\ rr_documents # <<>> /\ rr_raises) =>
        rr_result = Take(rr_documents, RerankK)

\* C5: extract_citations returns exactly one citation per input node, in
\* input order (so never more citations than nodes), and the empty list for
\* the empty list.
C5_OneCitationPerNodeInOrder ==
    ce_pc = "done" =>
        /\ Len(ce_result) = Len(ce_nodes)
        /\ Len(ce_result) <= Len(ce_nodes)
        /\ \A i \in 1..Len(ce_nodes) : ce_result[i].chunk_id = ce_nodes[i].node_id
        /\ (ce_nodes = <<>> => ce_result = <<>>)

\* a call on several nodes, one of them without a score
C5_Witness ==
    /\ ce_pc = "done"
    /\ Len(ce_nodes) >= 2
    /\ \E i \in 1..Len(ce_nodes) : IsNone(ce_nodes[i].score)
    /\ Len(ce_result) = Len(ce_nodes)

\* C6: whenever POST /documents/ingest answers success=true, chunks_created
\* is at least 1 and every chunk the request stored in the vector index has
\* metadata file_name equal to the name of the ingested file.
C6_IngestKeepsFileName ==
    (ing_resp.status = "done" /\ ing_resp.success) =>
        /\ ing_resp.chunks_created >= 1
        /\ \A c \in index :
              c.node_id \in ing_resp.stored =>
                  Get(c.metadata, "file_name", "") = FileName(ing_resp.file_path)

\* C7: GET /health always answers HTTP 200 with a status field, a timestamp
\* and a services map holding an entry for each of database, ollama and
\* phoenix, whatever combination of the dependencies fails; a failing
\* dependency check leaves its entry in the map instead of raising.
C7_HealthAlwaysAnswers ==
    /\ hc_pc \in {"ollama", "phoenix", "respond", "responded"}
          => "database" \in DOMAIN hc_services
    /\ hc_pc \in {"phoenix", "respond", "responded"} => "ollama" \in DOMAIN hc_services
    /\ hc_pc \in {"respond", "responded"} => "phoenix" \in DOMAIN hc_services
    /\ hc_pc = "responded" =>
          /\ hc_resp.status_code = 200
          /\ hc_resp.status \in {"healthy", "degraded"}
          /\ ~IsNone(hc_resp.timestamp)
          /\ DOMAIN hc_resp.services = {"database", "ollama", "phoenix"}

\* an answer given while all three dependencies fail with an exception
C7_Witness ==
    /\ hc_pc = "responded"
    /\ hc_outcomes["database"] = "engine_raises"
    /\ hc_outcomes["ollama"] = "raises"
    /\ hc_outcomes["phoenix"] = "raises"
    /\ hc_resp.status_code = 200

\* the event sequence of a stream: one delta per fragment with finish_reason
\* null, then one empty delta with finish_reason "stop", then [DONE], once
\* and last
IsStreamShape(events) ==
    LET n == Len(events)
    IN  /\ n >= 2
        /\ events[n] = DoneEvent
        /\ events[n - 1] = FinalEvent
        /\ \A i \in 1..(n - 2) :
              /\ ~events[i].sentinel
              /\ ~IsNone(events[i].content)
              /\ IsNone(events[i].finish_reason)

\* the deltas are the whitespace-delimited fragments of the answer, in order
DeltasOf(events, answer) ==
    LET chunks == Split(answer)
    IN  /\ Len(events) = Len(chunks) + 2
        /\ \A i \in 1..Len(chunks) : events[i].content = Some(chunks[i] \o <<" ">>)

\* generate_stream itself, on every answer, yields a sequence of that shape
GenerateStreamShape ==
    gs_pc = "done" => IsStreamShape(gs_events) /\ DeltasOf(gs_events, gs_answer)

\* C8: a POST /v1/chat/completions request with stream=true that carries a
\* user message, and whose collaborators (database, retriever, models) all
\* work, is answered with the event sequence: one content delta per
\* whitespace-delimited fragment of the answer, each with finish_reason
\* null, then exactly one empty delta with finish_reason "stop", then the
\* [DONE] sentinel, last and once.
C8_StreamEventSequence ==
    \A r \in Requests :
        (/\ req[r].kind = "openai" /\ req[r].stream /\ req[r].pc = "done"
         /\ ~NoUserMessage(LastUserMessage(req[r].messages, None))
         /\ ~req[r].fault)
            => /\ IsStreamShape(req[r].events)
               /\ ~IsNone(req[r].result)
               /\ DeltasOf(req[r].events, Val(req[r].result).response)

\* what an append-only step may do to the store
StoreOnlyAppends ==
    /\ DOMAIN conversations \subseteq DOMAIN conversations'
    /\ \A c \in DOMAIN conversations :
          conversations'[c].created_at = conversations[c].created_at
    /\ Len(messages') >= Len(messages)
    /\ \A i \in 1..Len(messages) : messages'[i] = messages[i]

\* C10: the conversation store is append-only: across any sequence of API
\* operations no conversation and no message is ever removed, a stored
\* message (role, content, metadata, created_at, conversation) never changes
\* and a conversation's created_at never changes; only updated_at and the
\* list of messages, by appending, change.
C10_StoreAppendOnly == [][StoreOnlyAppends]_vars

\* a conversation created at one time holds two messages, the later one
\* appended at a later time that updated_at has followed
C10_Witness ==
    \E c \in DOMAIN conversations :
        /\ Len(ConversationRows(messages, c)) >= 2
        /\ conversations[c].updated_at > conversations[c].created_at

\* C11: every stored message is the child of exactly one existing
\* conversation: in every reachable state each message's conversation_id is
\* the id of a conversation present in the store, also after POST /chat with
\* a client-supplied conversation_id that was never created.
C11_MessagesHaveConversation ==
    \A i \in 1..Len(messages) : messages[i].conversation_id \in DOMAIN conversations

\* the positions of a stage call in the calls of one process_query run
CallPositions(calls, stage) == {i \in 1..Len(calls) : calls[i] = stage}

\* C12: within one process_query call that returns, the stages complete in
\* the order query understanding, retrieval, re-rank, citation extraction,
\* answer generation; citation extraction has completed before answer
\* generation starts.
C12_StagesInSpecOrder ==
    pq_pc = "returned" =>
        /\ \A i \in CallPositions(pq_calls, "extract_citations"),
              j \in CallPositions(pq_calls, "answer_generation") : i < j
        /\ \A i \in CallPositions(pq_calls, "rerank"),
              j \in CallPositions(pq_calls, "extract_citations") : i < j
        /\ \A i \in CallPositions(pq_calls, "retrieve"),
              j \in CallPositions(pq_calls, "rerank") : i < j
        /\ \A i \in CallPositions(pq_calls, "query_understanding"),
              j \in CallPositions(pq_calls, "retrieve") : i < j

\* C13: during one process_query call that returns, the retriever's
\* similarity search is invoked exactly once and the reranker exactly once.
C13_OneSearchOneRerank ==
    pq_pc = "returned" =>
        /\ Cardinality(CallPositions(pq_calls, "retrieve")) = 1
        /\ Cardinality(CallPositions(pq_calls, "rerank")) = 1

\* C14: every request to POST /chat, POST /conversations, GET
\* /conversations/{id} or POST /v1/chat/completions ends in the handler's own
\* answer (200, or 404 for an unknown conversation) or in HTTP 500 whose
\* detail starts with "Internal server error:"; whenever a collaborator
\* (conversation store, orchestrator, retriever, LLM) raised, it is the 500.
C14_FailuresAnswered500 ==
    \A r \in Requests :
        req[r].pc = "done" =>
            /\ req[r].status \in {200, 404, 500}
            /\ req[r].status = 404 => req[r].kind = "get"
            /\ req[r].fault => req[r].status = 500
            /\ req[r].status = 500 =>
                  /\ Len(req[r].detail) >= 1
                  /\ req[r].detail[1] = "Internal server error:"

\* a POST /chat whose orchestrator raised, answered 500
C14_Witness ==
    \E r \in Requests :
        /\ req[r].pc = "done" /\ req[r].kind = "chat" /\ req[r].fault
        /\ req[r].status = 500
        /\ req[r].detail = <<"Internal server error:", "pipeline">>

\* the message dictionaries are in ascending created_at order
AscendingCreatedAt(msgs) ==
    \A i, j \in 1..Len(msgs) : i < j => msgs[i].created_at <= msgs[j].created_at

\* C15: GET /conversations/{id}, when the store answers, answers 404 exactly
\* when no conversation with that id exists; for every conversation that
\* exists, also one with zero messages, it answers 200 with that
\* conversation's messages in ascending created_at order.
C15_GetConversation ==
    \A r \in Requests :
        (req[r].pc = "done" /\ req[r].kind = "get" /\ ~req[r].fault) =>
            LET c == Val(req[r].conversation_id)
                rows == ConversationRows(messages, c)
            IN  /\ req[r].status = 404 <=> c \notin DOMAIN conversations
                /\ c \in DOMAIN conversations =>
                      /\ req[r].status = 200
                      /\ req[r].body.conversation_id = c
                      /\ Len(req[r].body.messages) = Len(rows)
                      /\ \A i \in 1..Len(rows) :
                            \E j \in 1..Len(rows) :
                                /\ req[r].body.messages[j].role = rows[i].role
                                /\ req[r].body.messages[j].content = rows[i].content
                                /\ req[r].body.messages[j].created_at = rows[i].created_at
                      /\ AscendingCreatedAt(req[r].body.messages)

\* a conversation just created, with zero messages, answered 200
C15_Witness ==
    \E r \in Requests :
        /\ req[r].pc = "done" /\ req[r].kind = "get" /\ req[r].status = 200
        /\ req[r].body.messages = <<>>

\* C16: a POST /chat on a conversation that exists (it holds n >= 1
\* messages once the user message is saved), with all collaborators
\* working, hands the context built from the last min(5, n) messages to the
\* pipeline, which runs to completion: the request is answered 200.
C16_ChatWithHistoryCompletes ==
    \A r \in Requests :
        (/\ req[r].pc = "done" /\ req[r].kind = "chat" /\ ~req[r].fault
         /\ Val(req[r].conversation_id) \in DOMAIN conversations)
            => req[r].status = 200

\* C17: GET /health reports status "healthy" if and only if all three
\* dependency checks succeeded (the database connected, ollama and phoenix
\* answered 200); otherwise the status is "degraded".
C17_HealthyIffAllChecksSucceed ==
    hc_pc = "responded" =>
        (hc_resp.status = "healthy" <=>
            /\ hc_outcomes["database"] = "connected"
            /\ hc_outcomes["ollama"] = "200"
            /\ hc_outcomes["phoenix"] = "200")

\* C18: POST /v1/chat/completions whose messages contain no user-role
\* message with non-empty content is answered HTTP 400 "No user message
\* found".
C18_NoUserMessageIs400 ==
    \A r \in Requests :
        (/\ req[r].pc = "done" /\ req[r].kind = "openai"
         /\ NoUserMessage(LastUserMessage(req[r].messages, None)))
            => req[r].status = 400

\* the last n of a conversation's rows by created_at, as message dictionaries
LastByCreatedAt(rows, n) ==
    {HistoryMessages(SubSeq(ordered, Len(ordered) - n + 1, Len(ordered)))
        : ordered \in OrderedByCreatedAt(rows)}

\* C19: get_recent_messages(conversation_id, n) returns the n most recent
\* messages of the conversation (the last n by created_at) when it holds
\* more than n messages, all its messages when it holds at most n, and the
\* empty list when the conversation does not exist.
C19_RecentMessagesAreTheLastN ==
    gr_pc = "done" =>
        LET rows == ConversationRows(messages, gr_args.conversation_id)
        IN  IF gr_args.conversation_id \notin DOMAIN conversations
            THEN gr_result = <<>>
            ELSE IF Len(rows) <= gr_args.n
            THEN gr_result \in LastByCreatedAt(rows, Len(rows))
            ELSE gr_result \in LastByCreatedAt(rows, gr_args.n)

ChatOnNewConversationAnswered ==
    \E r \in Requests :
        /\ req[r].pc = "done" /\ req[r].kind = "chat" /\ req[r].status = 200
        /\ IsNone(req[r].supplied)

\* the errors process_query raises: crew_orchestrator.py:150-152 re-raises
\* whatever the pipeline or _build_context raised
OrchestratorErrors == {"pipeline", "history[-5:]"}

OrchestratorRaised(r) ==
    /\ req[r].pc = "done" /\ req[r].kind \in {"chat", "openai"}
    /\ Len(req[r].detail) = 2 /\ req[r].detail[2] \in OrchestratorErrors

\* the request of slot r created its conversation
CreatedConversation(r) ==
    req[r].kind = "openai" \/ IsNone(req[r].supplied)

C21_WitnessSupplied ==
    \E r \in Requests :
        /\ OrchestratorRaised(r) /\ req[r].kind = "chat"
        /\ ~CreatedConversation(r)
        /\ req[r].detail[2] = "pipeline"

\* user, assistant, user, ... from the first message on
Alternates(rows) ==
    \A i \in 1..Len(rows) :
        rows[i].role = IF i % 2 = 1 THEN "user" ELSE "assistant"

\* C22: in every interleaving of POST /chat requests on one conversation_id
\* the conversation's messages ordered by created_at (messages of one
\* instant in the order that suits) alternate user, assistant from a user
\* message on, and the history a request hands to the
\* orchestrator ends with that request's own user message.
C22_ChatInterleavingsAlternate ==
    /\ \A c \in DOMAIN conversations \cup {0} :
        \E ordered \in OrderedByCreatedAt(ConversationRows(messages, c)) :
            Alternates(ordered)
    /\ \A r \in Requests :
        (req[r].kind = "chat" /\ req[r].pc = "process" /\ ~IsNone(req[r].history)) =>
            LET msgs == Val(req[r].history).messages
            IN  /\ msgs # <<>>
                /\ msgs[Len(msgs)].role = "user"
                /\ msgs[Len(msgs)].content = req[r].message

\* the second half of C22 alone: the history handed over ends with the
\* request's own user message
HistoryEndsWithOwnMessage ==
    \A r \in Requests :
        (req[r].kind = "chat" /\ req[r].pc = "process" /\ ~IsNone(req[r].history)) =>
            LET msgs == Val(req[r].history).messages
            IN  msgs # <<>> /\ msgs[Len(msgs)].content = req[r].message

\* the greatest of a non-empty set of times
Latest(times) == CHOOSE t \in times : \A u \in times : u <= t

\* C23: in every reachable state of the conversation store, also under
\* concurrent add_message calls on one conversation, each conversation has
\* created_at <= updated_at, and updated_at is the greatest created_at among
\* its messages (its own created_at when it has none).
C23_UpdatedAtIsLatestMessage ==
    \A c \in DOMAIN conversations :
        LET rows == ConversationRows(messages, c)
        IN  /\ conversations[c].created_at <= conversations[c].updated_at
            /\ conversations[c].updated_at =
                   IF rows = <<>> THEN conversations[c].created_at
                   ELSE Latest({rows[i].created_at : i \in 1..Len(rows)})

\* result is made of distinct documents of the input, each with its fields
\* unchanged and a rerank_score added
DocumentsWithRerankScore(result, documents) ==
    \E f \in [1..Len(result) -> 1..Len(documents)] :
        /\ \A i, j \in 1..Len(result) : i # j => f[i] # f[j]
        /\ \A i \in 1..Len(result) :
            /\ DOMAIN result[i] = DOMAIN documents[f[i]] \cup {"rerank_score"}
            /\ "rerank_score" \notin DOMAIN documents[f[i]]
            /\ \A key \in DOMAIN documents[f[i]] : result[i][key] = documents[f[i]][key]

\* C24: rerank on n >= 1 documents with top_k = k (0 <= k) returns exactly
\* min(k, n) documents, each one of the input documents with its fields
\* unchanged plus a rerank_score, and no input document twice.
C24_RerankReturnsMinKScoredDocuments ==
    (rr_pc = "done" /\ rr_documents # <<>> /\ ~IsNone(rr_top_k)) =>
        /\ Len(rr_result) = Min(Val(rr_top_k), Len(rr_documents))
        /\ DocumentsWithRerankScore(rr_result, rr_documents)

\* the same when the cross-encoder answers
RerankScoredWhenModelAnswers ==
    (rr_pc = "done" /\ rr_documents # <<>> /\ ~IsNone(rr_top_k) /\ ~rr_raises) =>
        /\ Len(rr_result) = Min(Val(rr_top_k), Len(rr_documents))
        /\ DocumentsWithRerankScore(rr_result, rr_documents)

\* C25: each citation of extract_citations copies its node: chunk_id is the
\* node id, document_name the metadata file_name ("Unknown" when absent),
\* page_number the metadata page_number (none when absent), score the node's
\* score (0 when it has none), text the node text when it is at most 200
\* characters long, else its first 200 characters followed by "...".
C25_CitationCopiesItsNode ==
    ce_pc = "done" =>
        /\ Len(ce_result) = Len(ce_nodes)
        /\ \A i \in 1..Len(ce_nodes) :
            LET node == ce_nodes[i]
                citation == ce_result[i]
            IN  /\ citation.chunk_id = node.node_id
                /\ citation.document_name =
                       IF "file_name" \in DOMAIN node.metadata
                       THEN node.metadata.file_name ELSE "Unknown"
                /\ citation.page_number =
                       IF "page_number" \in DOMAIN node.metadata
                       THEN node.metadata.page_number ELSE None
                /\ citation.score = IF IsNone(node.score) THEN 0 ELSE Val(node.score)
                /\ IF Len(node.text) <= 200
                   THEN citation.text = node.text
                   ELSE /\ Len(citation.text) = 203
                        /\ \A j \in 1..200 : citation.text[j] = node.text[j]
                        /\ \A j \in 201..203 : citation.text[j] = "."

\* citations were extracted from a node without score and file_name whose
\* text is longer than 200 characters, and from one of exactly 200
C25_Witness ==
    /\ ce_pc = "done"
    /\ \E i \in 1..Len(ce_nodes) :
        /\ Len(ce_nodes[i].text) > 200
        /\ "file_name" \notin DOMAIN ce_nodes[i].metadata
        /\ Len(ce_result[i].text) = 203
    /\ \E i \in 1..Len(ce_nodes) :
        /\ Len(ce_nodes[i].text) = 200
        /\ IsNone(ce_nodes[i].score)
        /\ ce_result[i].score = 0

\* what a client gets by joining the content of the deltas, in order
RECURSIVE ConcatDeltas(_)
ConcatDeltas(events) ==
    IF events = <<>> THEN <<>>
    ELSE (IF IsNone(Head(events).content) THEN <<>> ELSE Val(Head(events).content))
         \o ConcatDeltas(Tail(events))

\* C26: for every answer, the content deltas streamed with stream=true,
\* concatenated in order, equal the message content returned with
\* stream=false (routes.py line 314: the answer itself).
C26_StreamedDeltasConcatToAnswer ==
    gs_pc = "done" => ConcatDeltas(gs_events) = gs_answer

\* the request of slot r has a user-role message with content: it passes
\* the validation of openai_chat_completions
HasUserMessage(r) ==
    \E i \in 1..Len(req[r].messages) :
        /\ req[r].messages[i].role = "user"
        /\ \A j \in (i + 1)..Len(req[r].messages) : req[r].messages[j].role # "user"
        /\ req[r].messages[i].content # ""

\* the content of the last user-role message of the request of slot r
LastUserContent(r) ==
    LET msgs == req[r].messages
        i == CHOOSE k \in 1..Len(msgs) :
                /\ msgs[k].role = "user"
                /\ \A j \in (k + 1)..Len(msgs) : msgs[j].role # "user"
    IN  msgs[i].content

OpenAIRequestAnswered ==
    \E r \in Requests :
        req[r].kind = "openai" /\ req[r].pc = "done" /\ req[r].status = 200

\* the steps of ingest_document that come before the vector store write
StepsBeforeStore == {"file", "convert", "metadata", "chunk"}

\* what C28 asks of one POST /documents/ingest request
IngestFailureAnswered ==
    ing_resp'.failed # "" =>
        /\ ing_resp'.status = "done"
        /\ ing_resp'.success = FALSE
        /\ ing_resp'.chunks_created = 0
        /\ ing_resp'.message = "Error ingesting document:"
        /\ ing_resp'.failed \in StepsBeforeStore => index' = index

\* C28: when any step of POST /documents/ingest fails (file missing,
\* conversion error, request metadata absent, vector store error; chunking is
\* a step too) the endpoint answers success=false, chunks_created=0 and a
\* message starting "Error ingesting document:" instead of an HTTP 500, and
\* a failure before the vector store write leaves the index unchanged.
C28_IngestFailureIsAnswered == [][IngestFailureAnswered]_vars

\* the same without the chunking step, whose failure chunk_documents swallows
IngestFailureAnsweredButChunking ==
    [][ing_resp'.failed \in {"file", "convert", "metadata", "store"} =>
            /\ ing_resp'.status = "done"
            /\ ing_resp'.success = FALSE
            /\ ing_resp'.chunks_created = 0
            /\ ing_resp'.message = "Error ingesting document:"
            /\ ing_resp'.failed # "store" => index' = index]_vars

\* the samples C29 promises for the questions from number i (from 0) on
RECURSIVE ExpectedSamples(_, _)
ExpectedSamples(in, i) ==
    IF i >= Len(in.questions) THEN <<>>
    ELSE (IF in.retrieve_raises[i + 1] \/ in.orchestrator_raises[i + 1]
          THEN <<>>
          ELSE <<[question |-> in.questions[i + 1],
                  answer |-> OrchestratorResponse(in.questions[i + 1]),
                  ground_truth |->
                      IF ~IsNone(in.ground_truths) /\ i < Len(Val(in.ground_truths))
                      THEN Val(in.ground_truths)[i + 1] ELSE ""]>>)
         \o ExpectedSamples(in, i + 1)

\* C29: generate_evaluation_dataset(questions, ground_truths) yields one
\* sample for every question whose retrieval and answer generation succeed,
\* in question order, with the orchestrator's response as answer and
\* ground_truths[i] of the question's own index i ("" when absent) as
\* ground_truth; failing questions are skipped without shifting the ground
\* truths of later questions.
C29_OneSamplePerAnsweredQuestion ==
    ev_pc = "done" => ev_results = ExpectedSamples(ev_in, 0)

\* generate_evaluation_dataset never yields a sample
EvaluationDatasetIsEmpty == ev_results = <<>>

\* C30: none of the three agent tools raises out of _run: when its LLM,
\* retriever or reranker collaborator raises the tool returns the error
\* string ("Query analysis error:", "Retrieval error:", "Answer generation
\* error:" plus the message), so a failing stage never aborts the later ones.
C30_ToolsReturnErrorStrings ==
    /\ tl_pc # "aborted"
    /\ \A stage \in DOMAIN tl_out : ~tl_out[stage].raised
    /\ "query" \in DOMAIN tl_out =>
          (tl_in.query_llm_raises <=> tl_out["query"].value = "Query analysis error:")
    /\ "retrieval" \in DOMAIN tl_out =>
          ((tl_in.retrieve_raises \/ tl_in.rerank_raises)
              <=> tl_out["retrieval"].value = "Retrieval error:")
    /\ "answer" \in DOMAIN tl_out =>
          (tl_in.answer_llm_raises <=> tl_out["answer"].value = "Answer generation error:")
    /\ tl_pc = "done" => DOMAIN tl_out = {"query", "retrieval", "answer"}

\* the first tool's LLM raised, and the two later tools ran all the same
C30_Witness ==
    /\ tl_pc = "done"
    /\ tl_in.query_llm_raises /\ tl_in.retrieve_raises
    /\ tl_out["query"].value = "Query analysis error:"
    /\ tl_out["retrieval"].value = "Retrieval error:"
    /\ tl_out["answer"].value = "answer"

====
